---- MODULE Spec2Model ----
(***************************************************************************)
(* A model of src/train.py: the DDPM noise schedule (ddpm_schedules), the  *)
(* tensor shapes through the U-Net (Unet.forward), the diffusion wrapper   *)
(* (DDPM.forward, DDPM.sample) and the training driver (train_mnist).      *)
(*                                                                         *)
(* float32 values are modelled in fixed point: the integer v stands for    *)
(* v / Scale.  Scale = 10^7 is about the resolution of float32 near 1      *)
(* (2^-23 ~ 1.2e-7).  Operations round towards minus infinity.  Finite      *)
(* values lie strictly between -Wide and Wide; NaN, Inf and NegInf are     *)
(* integers outside that range and stand for the IEEE results of sqrt of a *)
(* negative number and of a division by zero, which torch returns without  *)
(* raising.                                                                *)
(***************************************************************************)
EXTENDS Integers, Sequences, FiniteSets, TLC

VARIABLES
    \* ddpm_schedules / DDPM.__init__
    beta1, beta2, n_T, schedule,
    \* control position of the operation being run
    pc,
    \* DDPM.forward
    ts, x_t, t_net,
    \* DDPM.sample
    n_sample, i, x_i, x_i_store, z, queries, draws,
    \* Unet
    n_feat, net, x_in, t_in, act,
    \* train_mnist
    n_epoch, n_batches, ep, batch, lr, steps, artifacts

vars == <<beta1, beta2, n_T, schedule, pc, ts, x_t, t_net,
          n_sample, i, x_i, x_i_store, z, queries, draws,
          n_feat, net, x_in, t_in, act,
          n_epoch, n_batches, ep, batch, lr, steps, artifacts>>

None == "None"

schedVars == <<beta1, beta2, n_T, schedule>>
forwardVars == <<ts, x_t, t_net>>
sampleVars == <<n_sample, i, x_i, x_i_store, z, queries, draws>>
unetVars == <<n_feat, net, x_in, t_in, act>>
trainVars == <<n_epoch, n_batches, ep, batch, lr, steps, artifacts>>

\* the state of a component that the operation being explored does not touch
UnusedSched == beta1 = None /\ beta2 = None /\ n_T = None /\ schedule = None
UnusedForward == ts = None /\ x_t = None /\ t_net = None
UnusedSample ==
    /\ n_sample = None /\ i = None /\ x_i = None /\ x_i_store = None
    /\ z = None /\ queries = None /\ draws = None
UnusedUnet == n_feat = None /\ net = None /\ x_in = None /\ t_in = None /\ act = None
UnusedTrain ==
    /\ n_epoch = None /\ n_batches = None /\ ep = None /\ batch = None
    /\ lr = None /\ steps = None /\ artifacts = None

Scale == 10^7

-----------------------------------------------------------------------------
(* Bounds of the model. *)

\* ddpm_schedules is explored for T in 1..MaxSchedT
MaxSchedT == 3
\* DDPM.forward is explored for n_T in 1..MaxFwdT and batches of 1..MaxBatch images
MaxFwdT == 5
MaxBatch == 3
\* DDPM.sample is explored for n_T in 1..MaxSampleT (and for train_n_T) and
\* n_sample in 1..MaxNSample
MaxSampleT == 30
MaxNSample == 2
\* Unet is explored for n_feat in 1..MaxFeat and batches of 1..MaxN images
MaxFeat == 16
MaxN == 3
\* train_mnist is explored for n_epoch in 1..MaxEpoch (and for train_n_epoch)
\* and data loaders of 1..MaxBatches batches
MaxEpoch == 3
MaxBatches == 3

-----------------------------------------------------------------------------
(* The constants of train_mnist. *)

train_n_epoch == 40
train_n_T == 600
train_n_sample == 10
\* lrate = 1e-4, as the fraction <<numerator, denominator>>
lrate == <<1, 10^4>>
save_model == TRUE
\* betas = (1e-4, 0.02)
betas == <<Scale \div 10000, 2 * (Scale \div 100)>>

-----------------------------------------------------------------------------
(* Fixed-point arithmetic standing for torch.float32. *)

\* two-limb naturals <<hi, lo>> = hi * 10^8 + lo, so that products of
\* fixed-point values stay inside TLC's 32-bit integers
Limb == 10^4
Wide == 10^8

Inf == 10^9
NegInf == -(10^9)
NaN == 2 * 10^9

IsNum(v) == -Wide < v /\ v < Wide

\* a * b for 0 <= a, b < Wide
Mul(a, b) ==
    LET a1 == a \div Limb
        a0 == a % Limb
        b1 == b \div Limb
        b0 == b % Limb
        mid == a1 * b0 + a0 * b1
        low == (mid % Limb) * Limb + a0 * b0
    IN  <<a1 * b1 + (mid \div Limb) + (low \div Wide), low % Wide>>

WideLeq(p, q) == p[1] < q[1] \/ (p[1] = q[1] /\ p[2] <= q[2])

\* the largest y in lo..hi with y * m <= bound (y * y <= bound when m = 0)
RECURSIVE Largest(_, _, _, _)
Largest(lo, hi, m, bound) ==
    IF lo = hi THEN lo
    ELSE LET mid == (lo + hi + 1) \div 2
             prod == IF m = 0 THEN Mul(mid, mid) ELSE Mul(mid, m)
         IN  IF WideLeq(prod, bound)
             THEN Largest(mid, hi, m, bound)
             ELSE Largest(lo, mid - 1, m, bound)

\* torch.sqrt
FSqrt(v) ==
    IF ~IsNum(v) THEN (IF v = Inf THEN Inf ELSE NaN)
    ELSE IF v < 0 THEN NaN
    ELSE Largest(0, Wide - 1, 0, Mul(v, Scale))

\* a / b on tensors: no exception, IEEE results for a zero divisor (a finite
\* quotient is capped at Wide - 1, which no schedule explored here reaches)
FDiv(a, b) ==
    IF ~IsNum(b) THEN (IF IsNum(a) /\ b # NaN THEN 0 ELSE NaN)
    ELSE IF ~IsNum(a) THEN (IF a = NaN \/ b = 0 THEN a
                            ELSE IF b > 0 THEN a
                            ELSE IF a = Inf THEN NegInf ELSE Inf)
    ELSE IF b = 0 THEN (IF a = 0 THEN NaN ELSE IF a > 0 THEN Inf ELSE NegInf)
    ELSE LET q == Largest(0, Wide - 1, IF b < 0 THEN -b ELSE b,
                          Mul(IF a < 0 THEN -a ELSE a, Scale))
         IN  IF (a < 0) = (b < 0) THEN q ELSE -q

\* a * b
FMul(a, b) == LET p == Mul(a, b) IN p[1] * (Wide \div Scale) + (p[2] \div Scale)

-----------------------------------------------------------------------------
(* ddpm_schedules(beta1, beta2, T) *)

\* the assertion of line 170
SchedAssert(b1, b2) == b1 < b2 /\ b2 < Scale

\* (a schedule whose first entry is already one step past beta1)
Beta_t_Shifted(b1, b2, T) == [t \in 0..T |-> ((b2 - b1) * (t + 1)) \div T + b1]
\* beta_t = (beta2 - beta1) * arange(0, T + 1) / T + beta1
Beta_t(b1, b2, T) == [t \in 0..T |-> ((b2 - b1) * t) \div T + b1]

\* alpha_t = 1 - beta_t
Alpha_t(b1, b2, T) == [t \in 0..T |-> Scale - Beta_t(b1, b2, T)[t]]

\* alphabar_t = cumsum(log(alpha_t)).exp(): the running product of alpha_t,
\* entry t being the product of alpha_0 .. alpha_t
\* the products for the indices lo..hi, `before` being the product of the
\* entries below lo (halving keeps the evaluation depth logarithmic in T)
RECURSIVE CumProd(_, _, _, _)
CumProd(alpha, lo, hi, before) ==
    IF lo = hi THEN <<FMul(before, alpha[lo])>>
    ELSE LET mid == (lo + hi) \div 2
             left == CumProd(alpha, lo, mid, before)
         IN  left \o CumProd(alpha, mid + 1, hi, left[Len(left)])

\* (an exclusive running product: entry t is the product of alpha_0 .. alpha_(t-1))
Alphabar_t_Exclusive(b1, b2, T) ==
    LET s == CumProd(Alpha_t(b1, b2, T), 0, T, Scale)
    IN  [t \in 0..T |-> IF t = 0 THEN Scale ELSE s[t]]
Alphabar_t(b1, b2, T) ==
    LET s == CumProd(Alpha_t(b1, b2, T), 0, T, Scale)
    IN  [t \in 0..T |-> s[t + 1]]

ddpm_schedules(b1, b2, T) ==
    IF ~SchedAssert(b1, b2) THEN "AssertionError"
    ELSE LET beta_t == Beta_t(b1, b2, T)
             alpha_t == Alpha_t(b1, b2, T)
             alphabar_t == Alphabar_t(b1, b2, T)
             sqrtmab == [t \in 0..T |-> FSqrt(Scale - alphabar_t[t])]
         IN  [alpha_t |-> alpha_t,
              oneover_sqrta |-> [t \in 0..T |-> FDiv(Scale, FSqrt(alpha_t[t]))],
              sqrt_beta_t |-> [t \in 0..T |-> FSqrt(beta_t[t])],
              alphabar_t |-> alphabar_t,
              sqrtab |-> [t \in 0..T |-> FSqrt(alphabar_t[t])],
              sqrtmab |-> sqrtmab,
              mab_over_sqrtmab |-> [t \in 0..T |-> FDiv(Scale - alpha_t[t], sqrtmab[t])]]

-----------------------------------------------------------------------------
(* SpecSchedule: one call of ddpm_schedules on each input of SchedInputs. *)

BetaGrid ==
    {-(Scale \div 2), 0, betas[1], betas[2], Scale \div 4, Scale \div 2, Scale,
     3 * (Scale \div 2)}

SchedInputs == (BetaGrid \X BetaGrid \X (1..MaxSchedT)) \cup {<<betas[1], betas[2], train_n_T>>}

InitSchedule ==
    /\ \E input \in SchedInputs :
          beta1 = input[1] /\ beta2 = input[2] /\ n_T = input[3]
    /\ schedule = None
    /\ pc = "call"
    /\ UnusedForward /\ UnusedSample /\ UnusedUnet /\ UnusedTrain

CallSchedules ==
    /\ pc = "call"
    /\ IF SchedAssert(beta1, beta2)
       THEN /\ schedule' = ddpm_schedules(beta1, beta2, n_T)
            /\ pc' = "returned"
       ELSE /\ schedule' = None
            /\ pc' = "AssertionError"
    /\ UNCHANGED <<beta1, beta2, n_T, forwardVars, sampleVars, unetVars, trainVars>>

NextSchedule == CallSchedules

SpecSchedule == InitSchedule /\ [][NextSchedule]_vars

\* the inputs the schedule is specified for: 0 < beta1 < beta2 < 1
ValidBetas == 0 < beta1 /\ beta1 < beta2 /\ beta2 < Scale

\* C1: ddpm_schedules fails whenever beta1 >= beta2 or beta1 or beta2 lies
\* outside the open interval (0, 1), and returns a schedule only when
\* 0 < beta1 < beta2 < 1.  (Stated as the claim has it; the assertion of
\* line 170 does not test beta1 > 0.)
C1_FailsOutsideOpenInterval ==
    pc # "call" => (pc = "returned" <=> ValidBetas)

\* C4, as claimed: for valid inputs alphabar_0 = 1 and alphabar_t is
\* non-increasing over 0..T.
C4_AlphabarStartsAtOne ==
    (pc = "returned" /\ ValidBetas) =>
        /\ schedule.alphabar_t[0] = Scale
        /\ \A t \in 1..n_T : schedule.alphabar_t[t] <= schedule.alphabar_t[t - 1]

\* C4, amended: for valid inputs alphabar_0 = alpha_0 = 1 - beta1 (which is
\* below 1), and alphabar_t is non-increasing over 0..T.
C4_AlphabarStartsAtAlpha0 ==
    (pc = "returned" /\ ValidBetas) =>
        /\ schedule.alphabar_t[0] = Scale - beta1
        /\ schedule.alphabar_t[0] < Scale
        /\ \A t \in 1..n_T : schedule.alphabar_t[t] <= schedule.alphabar_t[t - 1]

C4_Witness ==
    /\ pc = "returned" /\ ValidBetas /\ n_T >= 2
    /\ schedule.alphabar_t[n_T] < schedule.alphabar_t[1]
    /\ schedule.alphabar_t[1] < schedule.alphabar_t[0]

\* the schedule train_mnist builds: betas = (1e-4, 0.02), T = 600
ConfiguredSchedule ==
    pc = "returned" /\ beta1 = betas[1] /\ beta2 = betas[2] /\ n_T = train_n_T

\* |v - 1/sqrt(1 - 1e-4)| <= 1e-6, with 1/sqrt(1 - 1e-4) = 1.0000500037...
NearOneOverSqrtOneMinusBeta1(v) ==
    LET ref == Scale + 500
        tol == Scale \div 10^6
    IN  ref - tol <= v /\ v <= ref + tol

\* C5, as claimed: for (1e-4, 0.02, 600), oneover_sqrta[1] is within 1e-6 of
\* 1/sqrt(1 - 1e-4), the beta value at index 1 being beta1.
C5_Index1IsBeta1 ==
    ConfiguredSchedule =>
        /\ NearOneOverSqrtOneMinusBeta1(schedule.oneover_sqrta[1])
        /\ Scale - schedule.alpha_t[1] = beta1

\* C5, amended: for (1e-4, 0.02, 600), oneover_sqrta[0] is within 1e-6 of
\* 1/sqrt(1 - 1e-4): the beta value at index 0 is beta1, and the one at
\* index 1 is beta1 + (beta2 - beta1)/T, which is larger.
C5_Index0IsBeta1 ==
    ConfiguredSchedule =>
        /\ NearOneOverSqrtOneMinusBeta1(schedule.oneover_sqrta[0])
        /\ Scale - schedule.alpha_t[0] = beta1
        /\ Scale - schedule.alpha_t[1] = beta1 + (beta2 - beta1) \div n_T
        /\ Scale - schedule.alpha_t[1] > beta1

C5_Witness ==
    ConfiguredSchedule /\ schedule.oneover_sqrta[1] > schedule.oneover_sqrta[0]

-----------------------------------------------------------------------------
(* SpecForward: DDPM.forward on a DDPM built as train_mnist builds it. *)

\* (a generator whose upper end is inclusive)
RandInt_Inclusive(low, high) == low..high
\* torch.randint(low, high, ...): the integers low .. high - 1
RandInt(low, high) == low..(high - 1)

\* tensor[idx] for a tensor of n entries: entry idx, or entry n + idx for a
\* negative idx; outside -n .. n-1 an IndexError
IndexOk(idx, n) == -n <= idx /\ idx < n
At(tensor, idx, n) == tensor[IF idx < 0 THEN n + idx ELSE idx]

InitForward ==
    /\ beta1 = betas[1] /\ beta2 = betas[2]
    /\ n_T \in 1..MaxFwdT
    /\ schedule = ddpm_schedules(beta1, beta2, n_T)
    /\ pc = "ready"
    /\ ts = <<>> /\ x_t = <<>> /\ t_net = <<>>
    /\ UnusedSample /\ UnusedUnet /\ UnusedTrain

\* forward(x) for a batch x of B images
forward(B) ==
    /\ pc = "ready"
    /\ \E _ts \in [1..B -> RandInt(1, n_T + 1)] :
          /\ ts' = _ts
          /\ IF \A k \in 1..B : IndexOk(_ts[k], n_T + 1)
             THEN /\ x_t' = [k \in 1..B |->
                               [x |-> At(schedule.sqrtab, _ts[k], n_T + 1),
                                noise |-> At(schedule.sqrtmab, _ts[k], n_T + 1)]]
                  \* _ts / self.n_T, kept as the fraction <<numerator, denominator>>
                  /\ t_net' = [k \in 1..B |-> <<_ts[k], n_T>>]
                  /\ pc' = "ready"
             ELSE /\ pc' = "IndexError"
                  /\ UNCHANGED <<x_t, t_net>>
    /\ UNCHANGED <<schedVars, sampleVars, unetVars, trainVars>>

NextForward == \E B \in 1..MaxBatch : forward(B)

SpecForward == InitForward /\ [][NextForward]_vars

\* C9: every timestep DDPM.forward draws is an integer t with 1 <= t <= T, so
\* every subscript into sqrtab and sqrtmab lies in 0..T, 0 is never used, and
\* the time given to the network, t/T, lies in (0, 1].
C9_TimestepsWithinSchedule ==
    /\ pc # "IndexError"
    /\ \A k \in DOMAIN ts :
          /\ 1 <= ts[k] /\ ts[k] <= n_T
          /\ ts[k] \in DOMAIN schedule.sqrtab
          /\ ts[k] \in DOMAIN schedule.sqrtmab
          /\ x_t[k] = [x |-> schedule.sqrtab[ts[k]], noise |-> schedule.sqrtmab[ts[k]]]
          /\ t_net[k] = <<ts[k], n_T>>
          /\ 0 < t_net[k][1] /\ t_net[k][1] <= t_net[k][2]

C9_Witness ==
    /\ n_T >= 2 /\ Len(ts) >= 2
    /\ \E k \in DOMAIN ts : ts[k] = 1
    /\ \E k \in DOMAIN ts : ts[k] = n_T /\ t_net[k][1] = t_net[k][2]

-----------------------------------------------------------------------------
(* SpecSample: DDPM.sample(n_sample, size, device).                        *)
(*                                                                         *)
(* A tensor of standard-normal noise is modelled by the number of the      *)
(* torch.randn call that drew it (1 for the first call of the run, 2 for   *)
(* the second, ...); the literal 0 of line 240 is 0.  The image batch x_i  *)
(* is modelled by the timestep whose update produced it and the noise that *)
(* update added.                                                           *)

\* (noise added at the last step too)
Noise_EveryStep(i_, fresh) == IF i_ > 0 THEN fresh ELSE 0
\* z = torch.randn(...) if i > 1 else 0, `fresh` being what randn returns
Noise(i_, fresh) == IF i_ > 1 THEN fresh ELSE 0

\* the condition of line 249 (and two variants of it: i <= 8, and no tail)
ShouldStore_Tail8(i_, T) == i_ % 20 = 0 \/ i_ = T \/ i_ <= 8
ShouldStore_NoTail(i_, T) == i_ % 20 = 0 \/ i_ = T
ShouldStore(i_, T) == i_ % 20 = 0 \/ i_ = T \/ i_ < 8

\* range(self.n_T, 0, -1): its first value and the value after i_, 0 standing
\* for the exhausted range
RangeNext(i_) == IF i_ - 1 > 0 THEN i_ - 1 ELSE 0
RangeFirst(T) == IF T > 0 THEN T ELSE 0

\* what DDPM.sample returns as x_i_store for a process of T steps: the
\* batches after the updates of the steps T, T-1, ..., 1 that line 249 keeps
SampleStore(T) ==
    LET KeepStep(entry) == ShouldStore(entry.step, T)
    IN  SelectSeq([k \in 1..T |-> [step |-> T - k + 1, z |-> Noise(T - k + 1, k + 1)]],
                  KeepStep)

\* the subscripts of x_gen_store that lines 318-322 read
TrajectoryReads == {IF j = 7 THEN -1 ELSE 4 * j + 4 : j \in 0..7}

InitSample ==
    /\ n_T \in (1..MaxSampleT) \cup {train_n_T}
    /\ n_sample \in 1..MaxNSample
    /\ pc = "call"
    /\ i = 0 /\ x_i = <<>> /\ x_i_store = <<>> /\ z = 0 /\ queries = <<>> /\ draws = 0
    /\ beta1 = None /\ beta2 = None /\ schedule = None
    /\ UnusedForward /\ UnusedUnet /\ UnusedTrain

\* lines 228-231: the initial noise, the empty store, the first value of the range
SampleBegin ==
    /\ pc = "call"
    /\ draws' = draws + 1
    /\ x_i' = [step |-> n_T + 1, z |-> draws + 1]
    /\ x_i_store' = <<>>
    /\ i' = RangeFirst(n_T)
    /\ pc' = "loop"
    /\ UNCHANGED <<z, queries, n_sample, schedVars, forwardVars, unetVars, trainVars>>

\* lines 232-250: one iteration of the loop
SampleStep ==
    /\ pc = "loop"
    /\ i > 0
    /\ LET t_is == <<i, n_T>>
           fresh == draws + 1
           z_ == Noise(i, fresh)
           x_new == [step |-> i, z |-> z_]
       IN  /\ draws' = IF z_ = 0 THEN draws ELSE fresh
           /\ z' = z_
           \* the batch and the timesteps are doubled before the call
           /\ queries' = Append(queries, [t |-> t_is, batch |-> 2 * n_sample, x |-> x_i])
           /\ x_i' = x_new
           /\ x_i_store' = IF ShouldStore(i, n_T) THEN Append(x_i_store, x_new)
                                                  ELSE x_i_store
    /\ i' = RangeNext(i)
    /\ pc' = "loop"
    /\ UNCHANGED <<n_sample, schedVars, forwardVars, unetVars, trainVars>>

\* lines 252-253
SampleReturn ==
    /\ pc = "loop"
    /\ i = 0
    /\ pc' = "returned"
    /\ UNCHANGED <<sampleVars, schedVars, forwardVars, unetVars, trainVars>>

NextSample == SampleBegin \/ SampleStep \/ SampleReturn

SpecSample == InitSample /\ [][NextSample]_vars

\* the timestep of the k-th query of a run, and of the latest one
StepOfQuery(k) == n_T - k + 1
LastStep == StepOfQuery(Len(queries))

\* C2: for T >= 1, sample queries the network exactly T times, at the
\* timesteps T, T-1, ..., 1 in this order and with the time i/T, and then
\* returns; the noise z is a fresh draw at every step with i > 1 and is 0 at
\* the step i = 1, so that T = 1 is a single update with zero noise.
C2_QueriesCountDownNoiseZeroAtLast ==
    /\ pc = "call" => queries = <<>>
    /\ pc # "call" =>
          /\ Len(queries) <= n_T
          /\ i = n_T - Len(queries)
          /\ \A k \in 1..Len(queries) :
                /\ queries[k].t = <<StepOfQuery(k), n_T>>
                /\ queries[k].batch = 2 * n_sample
                \* the batch queried is the one the step before produced
                /\ queries[k].x.step = StepOfQuery(k) + 1
          /\ Len(queries) >= 1 =>
                \* a draw made at this step and by no step before it
                /\ LastStep > 1 => (z = draws /\ draws = Len(queries) + 1)
                /\ LastStep = 1 => (z = 0 /\ draws = n_T)
                /\ x_i = [step |-> LastStep, z |-> z]
    /\ pc = "loop" => ENABLED NextSample
    /\ pc = "returned" => (Len(queries) = n_T /\ z = 0 /\ x_i.step = 1)

C2_Witness ==
    /\ pc = "returned" /\ n_T >= 2
    /\ Len(queries) = n_T /\ z = 0 /\ draws = n_T

\* the timesteps whose updates are done, and those with a snapshot
StepsDone == {j \in 1..n_T : j > i}
StepsStored == {x_i_store[k].step : k \in 1..Len(x_i_store)}

\* C3, as claimed: the batch is recorded after the update of step i exactly
\* when i is a multiple of 20, or i = T, or i is one of the final 8 steps
\* (i in 1..8).
C3_SnapshotAtFinal8Steps ==
    pc \in {"loop", "returned"} =>
        StepsStored = {j \in StepsDone : j % 20 = 0 \/ j = n_T \/ j \in 1..8}

\* C3, amended: the batch is recorded after the update of step i exactly when
\* i is a multiple of 20, or i = T, or i is one of the final 7 steps
\* (i in 1..7); no other step records a snapshot.
C3_SnapshotAtFinal7Steps ==
    pc \in {"loop", "returned"} =>
        /\ StepsStored = {j \in StepsDone : j % 20 = 0 \/ j = n_T \/ j \in 1..7}
        /\ Len(x_i_store) = Cardinality(StepsStored)
        \* what is recorded is the batch as the update of that step left it
        /\ \A k \in 1..Len(x_i_store) :
              x_i_store[k].z = IF x_i_store[k].step > 1
                               THEN n_T - x_i_store[k].step + 2 ELSE 0
        /\ (i < n_T /\ ShouldStore(i + 1, n_T)) => x_i_store[Len(x_i_store)] = x_i

C3_Witness ==
    /\ pc = "returned" /\ n_T > 20 /\ n_T % 20 # 0
    /\ StepsStored = {n_T, 20} \cup (1..7)

\* C10: for T = 600 the snapshots sample returns are ordered by strictly
\* decreasing timestep, the last one is the snapshot of the step i = 1 (the
\* batch that is returned), and every subscript the trajectory rendering of
\* train_mnist reads (4j + 4 for j = 0..6, and the last entry) is in range.
C10_ConfiguredStoreOrderedAndLongEnough ==
    (pc = "returned" /\ n_T = train_n_T) =>
        /\ \A k \in 1..(Len(x_i_store) - 1) : x_i_store[k].step > x_i_store[k + 1].step
        /\ x_i_store # <<>>
        /\ x_i_store[Len(x_i_store)] = x_i
        /\ x_i.step = 1
        /\ \A j \in 0..6 : 0 <= 4 * j + 4 /\ 4 * j + 4 < Len(x_i_store)
        /\ \A idx \in TrajectoryReads : IndexOk(idx, Len(x_i_store))

C10_Witness ==
    /\ pc = "returned" /\ n_T = train_n_T
    /\ Len(x_i_store) = 37

\* the loop is sequential code: a step that can be taken is taken
SpecSampleFair == SpecSample /\ WF_vars(NextSample)
SampleTerminates == <>(pc = "returned")

\* the snapshots of a whole run, as train_mnist's model of the call has them
SampleStoreAgrees == pc = "returned" => x_i_store = SampleStore(n_T)

-----------------------------------------------------------------------------
(* SpecUnet: the shapes of the tensors through Unet.__init__ and           *)
(* Unet.forward.  A tensor is its shape, a tuple of dimensions; Bad is the *)
(* outcome of a layer that raises on a shape it cannot take.               *)

Bad == <<>>

Conv2d(s, cin, cout, k, stride, pad) ==
    IF s = Bad \/ Len(s) # 4 THEN Bad
    ELSE IF s[2] # cin \/ s[3] + 2 * pad < k \/ s[4] + 2 * pad < k THEN Bad
    ELSE <<s[1], cout, (s[3] + 2 * pad - k) \div stride + 1,
                       (s[4] + 2 * pad - k) \div stride + 1>>

ConvTranspose2d(s, cin, cout, k, stride) ==
    IF s = Bad \/ Len(s) # 4 THEN Bad
    ELSE IF s[2] # cin THEN Bad
    ELSE <<s[1], cout, (s[3] - 1) * stride + k, (s[4] - 1) * stride + k>>

\* in training mode a channel needs more than one value
BatchNorm2d(s, c) ==
    IF s = Bad \/ Len(s) # 4 THEN Bad
    ELSE IF s[2] # c \/ s[1] * s[3] * s[4] <= 1 THEN Bad
    ELSE s

GroupNorm(s, groups, c) ==
    IF s = Bad \/ Len(s) < 2 THEN Bad
    ELSE IF s[2] # c THEN Bad
    ELSE s

\* nn.MaxPool2d(k) and nn.AvgPool2d(k): stride k, no padding
Pool2d(s, k) ==
    IF s = Bad \/ Len(s) # 4 THEN Bad
    ELSE IF s[3] < k \/ s[4] < k THEN Bad
    ELSE <<s[1], s[2], (s[3] - k) \div k + 1, (s[4] - k) \div k + 1>>

Linear(s, cin, cout) ==
    IF s = Bad THEN Bad
    ELSE IF s[Len(s)] # cin THEN Bad
    ELSE [k \in 1..Len(s) |-> IF k = Len(s) THEN cout ELSE s[k]]

RECURSIVE Numel(_)
Numel(s) == IF s = <<>> THEN 1 ELSE s[1] * Numel(Tail(s))

\* tensor.view(-1, d2, ...): rest holds the dimensions after the -1
View(s, rest) ==
    IF s = Bad THEN Bad
    ELSE IF Numel(s) % Numel(rest) # 0 THEN Bad
    ELSE <<Numel(s) \div Numel(rest)>> \o rest

\* a + b with broadcasting, for tensors of equal rank
Add(a, b) ==
    IF a = Bad \/ b = Bad \/ Len(a) # Len(b) THEN Bad
    ELSE IF \E k \in 1..Len(a) : a[k] # b[k] /\ a[k] # 1 /\ b[k] # 1 THEN Bad
    ELSE [k \in 1..Len(a) |-> IF a[k] = 1 THEN b[k] ELSE a[k]]

\* torch.cat((a, b), 1)
Cat1(a, b) ==
    IF a = Bad \/ b = Bad \/ Len(a) # Len(b) THEN Bad
    ELSE IF \E k \in 1..Len(a) : k # 2 /\ a[k] # b[k] THEN Bad
    ELSE [k \in 1..Len(a) |-> IF k = 2 THEN a[2] + b[2] ELSE a[k]]

\* ResidualConvBlock(in_channels, out_channels, is_res).forward(s)
ResidualConvBlock(s, cin, cout, is_res) ==
    LET x1 == BatchNorm2d(Conv2d(s, cin, cout, 3, 1, 1), cout)
        x2 == BatchNorm2d(Conv2d(x1, cout, cout, 3, 1, 1), cout)
    IN  IF is_res
        THEN (IF cin = cout THEN Add(s, x2) ELSE Add(x1, x2))
        ELSE x2

\* UnetDown(in_channels, out_channels).forward(s)
UnetDown(s, cin, cout) == Pool2d(ResidualConvBlock(s, cin, cout, FALSE), 2)

\* UnetUp(in_channels, out_channels).forward(s, skip) (and a variant that
\* drops the concatenation of the skip connection)
UnetUp_NoSkip(s, skip, cin, cout) ==
    ResidualConvBlock(
        ResidualConvBlock(ConvTranspose2d(s, cin, cout, 2, 2), cout, cout, FALSE),
        cout, cout, FALSE)
UnetUp(s, skip, cin, cout) ==
    ResidualConvBlock(
        ResidualConvBlock(ConvTranspose2d(Cat1(s, skip), cin, cout, 2, 2), cout, cout, FALSE),
        cout, cout, FALSE)

\* EmbedFC(input_dim, emb_dim).forward(s)
EmbedFC(s, input_dim, emb_dim) ==
    Linear(Linear(View(s, <<input_dim>>), input_dim, emb_dim), emb_dim, emb_dim)

\* nn.GroupNorm(num_groups, num_channels) raises ValueError at construction
\* unless num_channels is divisible by num_groups
GroupNormInit(groups, c) == c % groups = 0

\* Unet.__init__(in_channels, n_feat) completes
UnetInitOk(nf) == GroupNormInit(8, 2 * nf) /\ GroupNormInit(8, nf)

in_channels == 1

InitUnet ==
    /\ n_feat \in 1..MaxFeat
    /\ \E N \in 1..MaxN :
          /\ x_in = <<N, in_channels, 28, 28>>
          \* DDPM.forward passes N values, DDPM.sample a (N, 1, 1, 1) tensor
          /\ t_in \in {<<N>>, <<N, 1, 1, 1>>}
    /\ net = None
    /\ act = <<>>
    /\ pc = "new"
    /\ UnusedSched /\ UnusedForward /\ UnusedSample /\ UnusedTrain

\* Unet(in_channels=1, n_feat=n_feat)
UnetInit ==
    /\ pc = "new"
    /\ IF UnetInitOk(n_feat)
       THEN net' = "Unet" /\ pc' = "init_conv"
       ELSE net' = None /\ pc' = "ValueError"
    /\ UNCHANGED <<n_feat, x_in, t_in, act, schedVars, forwardVars, sampleVars, trainVars>>

\* a statement of forward: it binds `name`, or raises when a layer rejects a shape
Bind(from, to, name, value) ==
    /\ pc = from
    /\ act' = [k \in DOMAIN act \cup {name} |-> IF k = name THEN value ELSE act[k]]
    /\ pc' = IF value = Bad THEN "RuntimeError" ELSE to
    /\ UNCHANGED <<n_feat, net, x_in, t_in, schedVars, forwardVars, sampleVars, trainVars>>

\* lines 148-152
ForwardDown ==
    \/ Bind("init_conv", "down1", "x", ResidualConvBlock(x_in, in_channels, n_feat, TRUE))
    \/ Bind("down1", "down2", "down1", UnetDown(act.x, n_feat, n_feat))
    \/ Bind("down2", "to_vec", "down2", UnetDown(act.down1, n_feat, 2 * n_feat))
    \/ Bind("to_vec", "temb1", "hiddenvec", Pool2d(act.down2, 7))

\* lines 155-156
ForwardEmbed ==
    \/ Bind("temb1", "temb2", "temb1",
            View(EmbedFC(t_in, 1, 2 * n_feat), <<n_feat * 2, 1, 1>>))
    \/ Bind("temb2", "up0", "temb2",
            View(EmbedFC(t_in, 1, 1 * n_feat), <<n_feat, 1, 1>>))

\* lines 159-161
ForwardUp ==
    \/ Bind("up0", "up1", "up1",
            GroupNorm(ConvTranspose2d(act.hiddenvec, 2 * n_feat, 2 * n_feat, 7, 7),
                      8, 2 * n_feat))
    \/ Bind("up1", "up2", "up2",
            UnetUp(Add(act.up1, act.temb1), act.down2, 4 * n_feat, n_feat))
    \/ Bind("up2", "out", "up3",
            UnetUp(Add(act.up2, act.temb2), act.down1, 2 * n_feat, n_feat))

\* lines 162-163
ForwardOut ==
    Bind("out", "returned", "out",
         Conv2d(GroupNorm(Conv2d(Cat1(act.up3, act.x), 2 * n_feat, n_feat, 3, 1, 1),
                          8, n_feat),
                n_feat, in_channels, 3, 1, 1))

NextUnet == UnetInit \/ ForwardDown \/ ForwardEmbed \/ ForwardUp \/ ForwardOut

SpecUnet == InitUnet /\ [][NextUnet]_vars

\* the spatial size of a tensor
Spatial(s) == <<s[3], s[4]>>

\* the outcome claimed of Unet.forward on (N,1,28,28): no stage raises, both
\* skip concatenations join tensors of equal spatial size and of the channel
\* count the stage was built for, and the result has the shape of the input
ForwardShapesOk ==
    /\ pc # "RuntimeError"
    /\ "up2" \in DOMAIN act =>
          /\ Spatial(act.up1) = Spatial(act.down2)
          /\ act.up1[2] + act.down2[2] = 4 * n_feat
    /\ "up3" \in DOMAIN act =>
          /\ Spatial(act.up2) = Spatial(act.down1)
          /\ act.up2[2] + act.down1[2] = 2 * n_feat
    /\ pc = "returned" =>
          /\ Spatial(act.up3) = Spatial(act.x)
          /\ act.up3[2] + act.x[2] = 2 * n_feat
          /\ act.out = x_in
          /\ act.out = <<x_in[1], 1, 28, 28>>

\* C6, as claimed: for every batch size N >= 1 and every feature width
\* n_feat, the forward pass on (N,1,28,28) goes through every stage without a
\* shape mismatch and returns a tensor of shape (N,1,28,28).
C6_EveryWidthReturnsInputShape ==
    /\ pc # "ValueError"
    /\ ForwardShapesOk

\* C6, amended: for every batch size N >= 1 and every feature width n_feat
\* that is a multiple of 8 (for any other width the constructor of Unet
\* raises in nn.GroupNorm(8, .), and there is no forward pass), the forward
\* pass goes through every stage without a shape mismatch and returns a
\* tensor of shape (N,1,28,28).
C6_WidthMultipleOf8ReturnsInputShape ==
    /\ n_feat % 8 = 0 => (pc # "ValueError" /\ ForwardShapesOk)
    /\ n_feat % 8 # 0 => pc \in {"new", "ValueError"}

C6_Witness ==
    /\ pc = "returned" /\ n_feat = 16 /\ x_in[1] > 1
    /\ act.out = x_in

-----------------------------------------------------------------------------
(* SpecTrain: train_mnist.  Python floats of the learning rate are exact   *)
(* fractions <<numerator, denominator>> with a positive denominator.       *)

FracEq(f, g) == f[1] * g[2] = g[1] * f[2]
FracLt(f, g) == f[1] * g[2] < g[1] * f[2]

\* lrate * (1 - ep / n_epoch) (and a variant that decays one epoch early)
EpochLr_NextEpoch(base, e, n) == <<base[1] * (n - (e + 1)), base[2] * n>>
EpochLr(base, e, n) == <<base[1] * (n - e), base[2] * n>>

\* the test of line 301 (and a variant that saves after every epoch)
IsSaveEpoch_Every(e, n) == TRUE
IsSaveEpoch(e, n) == e = n - 1

InitTrain ==
    /\ n_epoch \in (1..MaxEpoch) \cup {train_n_epoch}
    /\ n_batches \in 1..MaxBatches
    /\ n_T = train_n_T
    /\ n_sample = train_n_sample
    /\ ep = 0
    /\ batch = 0
    /\ lr = lrate
    /\ steps = <<>>
    /\ artifacts = <<>>
    /\ x_i = <<>> /\ x_i_store = <<>>
    /\ pc = "epoch"
    /\ beta1 = None /\ beta2 = None /\ schedule = None
    /\ i = None /\ z = None /\ queries = None /\ draws = None
    /\ UnusedForward /\ UnusedUnet

trainFrame == <<n_epoch, n_batches, n_T, n_sample, beta1, beta2, schedule,
                i, z, queries, draws, forwardVars, unetVars>>

\* lines 279-287: the next epoch begins, or the loop over the epochs ends
EpochBegin ==
    /\ pc = "epoch"
    /\ IF ep < n_epoch
       THEN /\ lr' = EpochLr(lrate, ep, n_epoch)
            /\ batch' = 0
            /\ pc' = "batches"
       ELSE /\ pc' = "done"
            /\ UNCHANGED <<lr, batch>>
    /\ UNCHANGED <<ep, steps, artifacts, x_i, x_i_store, trainFrame>>

\* lines 288-298: one batch, ending in optim.step() at the current rate
OptimStep ==
    /\ pc = "batches"
    /\ batch < n_batches
    /\ steps' = Append(steps, [ep |-> ep, lr |-> lr])
    /\ batch' = batch + 1
    /\ UNCHANGED <<pc, ep, lr, artifacts, x_i, x_i_store, trainFrame>>

\* line 301, after the last batch of the epoch
EpochEnd ==
    /\ pc = "batches"
    /\ batch = n_batches
    /\ IF IsSaveEpoch(ep, n_epoch)
       THEN pc' = "sample" /\ ep' = ep
       ELSE pc' = "epoch" /\ ep' = ep + 1
    /\ UNCHANGED <<batch, lr, steps, artifacts, x_i, x_i_store, trainFrame>>

\* line 305: x_gen, x_gen_store = ddpm.sample(n_sample, (1, 28, 28), device)
TrainSample ==
    /\ pc = "sample"
    /\ x_i_store' = SampleStore(n_T)
    /\ x_i' = [step |-> 1, z |-> Noise(1, n_T + 1)]
    /\ artifacts' = Append(artifacts, [kind |-> "sample", ep |-> ep])
    /\ pc' = "image"
    /\ UNCHANGED <<ep, batch, lr, steps, trainFrame>>

\* lines 308-315: image_ep{ep}.png
SaveImage ==
    /\ pc = "image"
    /\ artifacts' = Append(artifacts, [kind |-> "image", ep |-> ep])
    /\ pc' = "trajectory"
    /\ UNCHANGED <<ep, batch, lr, steps, x_i, x_i_store, trainFrame>>

\* lines 317-327: image_ep{ep}_t.png, unless a subscript is out of range
SaveTrajectory ==
    /\ pc = "trajectory"
    /\ IF \A idx \in TrajectoryReads : IndexOk(idx, Len(x_i_store))
       THEN /\ artifacts' = Append(artifacts, [kind |-> "trajectory", ep |-> ep])
            /\ pc' = "checkpoint"
       ELSE /\ pc' = "IndexError"
            /\ UNCHANGED artifacts
    /\ UNCHANGED <<ep, batch, lr, steps, x_i, x_i_store, trainFrame>>

\* lines 330-332: model_{ep}.pth, then the next value of ep
SaveModel ==
    /\ pc = "checkpoint"
    /\ artifacts' = IF save_model
                     THEN Append(artifacts, [kind |-> "checkpoint", ep |-> ep])
                     ELSE artifacts
    /\ ep' = ep + 1
    /\ pc' = "epoch"
    /\ UNCHANGED <<batch, lr, steps, x_i, x_i_store, trainFrame>>

NextTrain ==
    \/ EpochBegin \/ OptimStep \/ EpochEnd
    \/ TrainSample \/ SaveImage \/ SaveTrajectory \/ SaveModel

SpecTrain == InitTrain /\ [][NextTrain]_vars

\* the artifacts of a whole run, in the order they are made
FinalArtifacts ==
    [k \in 1..4 |-> [kind |-> <<"sample", "image", "trajectory", "checkpoint">>[k],
                     ep |-> n_epoch - 1]]

\* C7: the samples, the two image grids and the checkpoint are made only in
\* the final epoch (ep = n_epoch - 1), each exactly once per run, after every
\* optimizer step of that epoch, and in the order sample, final-samples image,
\* trajectory image, checkpoint; no earlier epoch writes any artifact.
C7_ArtifactsOnlyAfterLastEpoch ==
    /\ pc # "IndexError"
    /\ Len(artifacts) <= 4
    /\ artifacts = SubSeq(FinalArtifacts, 1, Len(artifacts))
    /\ pc \in {"sample", "image", "trajectory", "checkpoint"} =>
          /\ ep = n_epoch - 1
          /\ batch = n_batches
          /\ Len(steps) = n_epoch * n_batches
    /\ artifacts # <<>> => Len(steps) = n_epoch * n_batches
    /\ pc = "done" => artifacts = FinalArtifacts

C7_Witness ==
    /\ pc = "done" /\ n_epoch >= 2 /\ n_batches >= 2
    /\ Len(artifacts) = 4

\* C8: every optimizer step of epoch ep runs at the rate
\* base_lr * (1 - ep/n_epoch), set before the first batch of the epoch: the
\* rate is base_lr in epoch 0, strictly decreases from one epoch to the next
\* and is strictly positive in every epoch, the last included.
C8_LinearDecayPerEpoch ==
    \A k \in 1..Len(steps) :
        LET e == steps[k].ep
            r == steps[k].lr
        IN  /\ e = (k - 1) \div n_batches
            /\ r[2] > 0
            /\ FracEq(r, <<lrate[1] * (n_epoch - e), lrate[2] * n_epoch>>)
            /\ e = 0 => FracEq(r, lrate)
            /\ FracLt(<<0, 1>>, r)
            /\ k > 1 => IF steps[k - 1].ep = e
                        THEN FracEq(steps[k - 1].lr, r)
                        ELSE FracLt(r, steps[k - 1].lr)

C8_Witness ==
    /\ pc = "done" /\ n_epoch = train_n_epoch /\ n_batches >= 2
    /\ Len(steps) = n_epoch * n_batches
    /\ FracLt(steps[Len(steps)].lr, steps[1].lr)

====
